---- MODULE Spec2Model ----
(***************************************************************************)
(* X-API: users, bearer tokens, tweets with embedded comments, and the     *)
(* propagation of a user's username to the denormalized copies kept on     *)
(* tweets and comments.  The store is the MongoDB database reached through *)
(* Mongoose; one action is one HTTP request handled to completion.         *)
(***************************************************************************)
EXTENDS Integers, Sequences, FiniteSets, TLC

\* ---------------------------------------------------------------- bounds
\* How many users, tweets and comments are ever created, and how many
\* seconds the clock advances.
MaxUsers == 2
MaxTweets == 2
MaxComments == 1
MaxTime == 1
\* How many requests are being handled at the same time.
MaxFlight == 2
\* How many tweets, and comments under one tweet, a store that is listed has.
MaxListed == 3

\* ------------------------------------------------------- request values
Absent == "-"
NoId == 0
Names == {"a", "b", "c"}
Passwords == {"pw1", "pw2"}
BadPassword == "password1"
GoodEmail == "e@x.io"
BadEmail == "nomail"
Contents == {"x", "y"}
EmptyList == "[]"

UserIds == 1..MaxUsers
TweetIds == 1..MaxTweets
CommentIds == 1..MaxComments
Slots == 1..MaxFlight

VARIABLES users, tweets, now, nextUid, nextTid, nextCid, revoked, last, flight

vars == <<users, tweets, now, nextUid, nextTid, nextCid, revoked, last, flight>>

\* ------------------------------------------------------------ primitives

\* jwt.sign({_id}, secret): the payload is the user id plus the issue time in
\* whole seconds; signing is deterministic, so the same id signed in the same
\* second is the same string.
Sign(uid, t) == [uid |-> uid, iat |-> t]

\* A string that does not verify against the signing secret.
BadToken == [uid |-> NoId, iat |-> 0]

Tokens == [uid : UserIds, iat : 0..MaxTime] \cup {BadToken}

\* jwt.verify(token, secret)
Verifies(tok) == tok.uid /= NoId

\* bcrypt.hash / bcrypt.compare: the stored value is never the plaintext and
\* compares equal exactly to the plaintext it was made from.
Hash(p) == <<"bcrypt", p>>

Compare(p, h) == h = Hash(p)

\* ---------------------------------------------------------- the response
\* What the last request was and how it was answered: the route, the user
\* the gate resolved, the status, the tweet id of the path, the token (the one
\* presented, or the one returned by register and login), for a profile
\* update the username the user had when the request arrived, and for an
\* update whether every key of its body was an allowed one, for a session
\* request the tokens the user held when it arrived, the user record the
\* response body carries, if it carries one, and for a listing its query
\* string and the array it sends.
\* For POST /tweets allowed tells whether the body named no field besides
\* content, pictures and videos.  sends lists every res.send the handler
\* reached, in order; status is the first of them, the one the client gets.
NoUser == <<>>

NoQuery == <<>>

Resp(op, actor, status, tid, token) ==
  [op |-> op, actor |-> actor, status |-> status, tid |-> tid, token |-> token,
   was |-> Absent, allowed |-> TRUE, held |-> {}, body |-> NoUser,
   query |-> NoQuery, sent |-> <<>>,
   sends |-> IF status = 0 THEN <<>> ELSE <<status>>]

\* ------------------------------------------------------- authorization
\* authMiddle: the token verifies and a user with the id it binds holds this
\* exact token; the result is that user's id, or NoId (401).
Resolve(tok) ==
  IF Verifies(tok) /\ tok.uid \in DOMAIN users /\ tok \in users[tok.uid].tokens
  THEN tok.uid
  ELSE NoId

\* ------------------------------------------------------------ user model

\* trim: true on username (the schema's setter).
Trim(s) == IF s = " b" THEN "b" ELSE s

UsernameInputs == Names \cup {" b"}

\* The schema's validators, run by save() before the other pre("save") hooks
\* and before anything is written: required username, password of at least 8
\* characters without "password" in it, email accepted by isEmail.
ValidUsername(u) == u /= Absent /\ u /= ""

ValidPassword(p) == p \in Passwords

ValidEmail(e) == e = GoodEmail

\* No unique index on username.
UniqueAlways(us, uid, name) == TRUE

\* unique: true on username: the unique index refuses a write that would give
\* two user documents the same username.
UniqueOk(us, uid, name) ==
  \A o \in DOMAIN us : o /= uid => us[o].username /= name

\* A rewrite that writes the name only where it is not there yet and clears
\* it where it is.
PropagateTweetsToggling(tw, uid, name) ==
  [t \in DOMAIN tw |->
     IF tw[t].author = uid
     THEN [tw[t] EXCEPT !.username = IF @ = name THEN Absent ELSE name]
     ELSE tw[t]]

\* pre("save") hook (3): Tweet.updateMany({author}, {$set: {username}}).
PropagateTweets(tw, uid, name) ==
  [t \in DOMAIN tw |->
     IF tw[t].author = uid THEN [tw[t] EXCEPT !.username = name] ELSE tw[t]]

\* Hook (4) without its arrayFilters: every comment of a tweet that holds a
\* comment of the user is rewritten.
PropagateEveryComment(tw, uid, name) ==
  [t \in DOMAIN tw |->
     [tw[t] EXCEPT !.comments =
        [i \in DOMAIN tw[t].comments |->
           IF \E j \in DOMAIN tw[t].comments : tw[t].comments[j].author = uid
           THEN [tw[t].comments[i] EXCEPT !.username = name]
           ELSE tw[t].comments[i]]]]

\* Hook (4) with the parent tweet's author as its filter.
PropagateOwnTweetComments(tw, uid, name) ==
  [t \in DOMAIN tw |->
     [tw[t] EXCEPT !.comments =
        [i \in DOMAIN tw[t].comments |->
           IF tw[t].author = uid /\ tw[t].comments[i].author = uid
           THEN [tw[t].comments[i] EXCEPT !.username = name]
           ELSE tw[t].comments[i]]]]

\* pre("save") hook (4): Tweet.updateMany({"comments.author"}, {$set:
\* {"comments.$[elem].username"}}, {arrayFilters: [{"elem.author"}]}).
PropagateComments(tw, uid, name) ==
  [t \in DOMAIN tw |->
     [tw[t] EXCEPT !.comments =
        [i \in DOMAIN tw[t].comments |->
           IF tw[t].comments[i].author = uid
           THEN [tw[t].comments[i] EXCEPT !.username = name]
           ELSE tw[t].comments[i]]]]

\* Hooks (3) and (4) in the order they are registered.
Propagate(tw, uid, name) == PropagateComments(PropagateTweets(tw, uid, name), uid, name)

\* The hook not running.
CascadeNothing(tw, uid) == tw

\* pre("remove") hook: Tweet.deleteMany({author}).
CascadeTweets(tw, uid) ==
  [t \in {x \in DOMAIN tw : tw[x].author /= uid} |-> tw[t]]

\* generateAuthToken signing the id of the first user whoever logs in.
GenerateAuthTokenOfFirst(user, uid, t) ==
  [user EXCEPT !.tokens = @ \cup {Sign(1, t)}]

\* generateAuthToken storing the new token in place of the ones held.
GenerateAuthTokenReplacing(user, uid, t) ==
  [user EXCEPT !.tokens = {Sign(uid, t)}]

\* generateAuthToken without its save.
GenerateAuthTokenUnsaved(user, uid, t) == user

\* generateAuthToken: sign the id, concat the token to tokens, save.  tokens is
\* kept as a set: the array is only ever tested for membership, filtered by
\* equality and emptied, so repeated entries are not observable.
GenerateAuthToken(user, uid, t) ==
  [user EXCEPT !.tokens = @ \cup {Sign(uid, t)}]

\* findByCredentials: the user with this username whose hash matches, or NoId.
\* toJSON without its two deletes.
ToObject(user) == user

\* toJSON: toObject() with password and tokens deleted; res.send serializes a
\* user document through it.
ToJSON(user) == [k \in DOMAIN user \ {"password", "tokens"} |-> user[k]]

FindByCredentials(username, password) ==
  IF \E u \in DOMAIN users :
       users[u].username = username /\ Compare(password, users[u].password)
  THEN CHOOSE u \in DOMAIN users :
       users[u].username = username /\ Compare(password, users[u].password)
  ELSE NoId

Remove(f, k) == [x \in DOMAIN f \ {k} |-> f[x]]

Put(f, k, v) == [x \in DOMAIN f \cup {k} |-> IF x = k THEN v ELSE f[x]]

\* --------------------------------------------------------- user requests

NoToken == BadToken

\* POST /users.  save() validates, runs the pre("save") hooks (a new document
\* counts as having its username modified, so both rewrites run for the new
\* id), then inserts; generateAuthToken follows.  Any throw: 400.
Register(username, password, email) ==
  /\ nextUid <= MaxUsers
  /\ LET uid == nextUid
         name == Trim(username)
         doc == [username |-> name, password |-> Hash(password),
                 email |-> email, avatar |-> Absent, tokens |-> {}]
     IN IF ~(ValidUsername(name) /\ ValidPassword(password) /\ ValidEmail(email))
        THEN /\ UNCHANGED <<users, tweets, nextUid>>
             /\ last' = Resp("register", NoId, 400, NoId, NoToken)
        ELSE IF ~UniqueOk(users, uid, name)
        THEN /\ tweets' = Propagate(tweets, uid, name)
             /\ UNCHANGED <<users, nextUid>>
             /\ last' = Resp("register", NoId, 400, NoId, NoToken)
        ELSE /\ tweets' = Propagate(tweets, uid, name)
             /\ users' = Put(users, uid, GenerateAuthToken(doc, uid, now))
             /\ nextUid' = nextUid + 1
             /\ last' = [Resp("register", uid, 201, NoId, Sign(uid, now))
                           EXCEPT !.body = ToJSON(GenerateAuthToken(doc, uid, now))]
  /\ UNCHANGED <<now, nextTid, nextCid, revoked, flight>>

\* A login that tells an unknown username (404) from a wrong password (400).
LoginRevealing(username, password) ==
  /\ LET uid == FindByCredentials(username, password)
         known == \E u \in DOMAIN users : users[u].username = username
     IN IF uid = NoId
        THEN /\ UNCHANGED users
             /\ last' = Resp("login", NoId, IF known THEN 400 ELSE 404, NoId, NoToken)
        ELSE /\ users' = [users EXCEPT ![uid] = GenerateAuthToken(@, uid, now)]
             /\ last' = [Resp("login", uid, 200, NoId, Sign(uid, now))
                           EXCEPT !.held = users[uid].tokens,
                                  !.body = ToJSON(GenerateAuthToken(users[uid], uid, now))]
  /\ UNCHANGED <<tweets, now, nextUid, nextTid, nextCid, revoked, flight>>

\* POST /users/login
Login(username, password) ==
  /\ LET uid == FindByCredentials(username, password)
     IN IF uid = NoId
        THEN /\ UNCHANGED users
             /\ last' = Resp("login", NoId, 400, NoId, NoToken)
        ELSE /\ users' = [users EXCEPT ![uid] = GenerateAuthToken(@, uid, now)]
             /\ last' = [Resp("login", uid, 200, NoId, Sign(uid, now))
                           EXCEPT !.held = users[uid].tokens,
                                  !.body = ToJSON(GenerateAuthToken(users[uid], uid, now))]
  /\ UNCHANGED <<tweets, now, nextUid, nextTid, nextCid, revoked, flight>>

\* A request to a route behind authMiddle whose token does not resolve: 401, and
\* the route's handler never runs.
Unauthorized(op, tok) ==
  /\ Resolve(tok) = NoId
  /\ last' = Resp(op, NoId, 401, NoId, tok)
  /\ UNCHANGED <<users, tweets, now, nextUid, nextTid, nextCid, revoked, flight>>

\* A logout that ends every session of the user.
LogoutEverySession(tok) ==
  /\ Resolve(tok) /= NoId
  /\ users' = [users EXCEPT ![Resolve(tok)].tokens = {}]
  /\ revoked' = revoked \cup {tok}
  /\ last' = [Resp("logout", Resolve(tok), 200, NoId, tok)
                EXCEPT !.held = users[Resolve(tok)].tokens]
  /\ UNCHANGED <<tweets, now, nextUid, nextTid, nextCid, flight>>

\* POST /users/logout: drop every entry equal to the presented token.
Logout(tok) ==
  /\ Resolve(tok) /= NoId
  /\ users' = [users EXCEPT ![Resolve(tok)].tokens = @ \ {tok}]
  /\ revoked' = revoked \cup {tok}
  /\ last' = [Resp("logout", Resolve(tok), 200, NoId, tok)
                EXCEPT !.held = users[Resolve(tok)].tokens]
  /\ UNCHANGED <<tweets, now, nextUid, nextTid, nextCid, flight>>

\* A logoutAll that ends only the session it was sent from.
LogoutAllThisSession(tok) ==
  /\ Resolve(tok) /= NoId
  /\ users' = [users EXCEPT ![Resolve(tok)].tokens = @ \ {tok}]
  /\ revoked' = revoked \cup {tok}
  /\ last' = [Resp("logoutAll", Resolve(tok), 200, NoId, tok)
                EXCEPT !.held = users[Resolve(tok)].tokens]
  /\ UNCHANGED <<tweets, now, nextUid, nextTid, nextCid, flight>>

\* POST /users/logoutAll
LogoutAll(tok) ==
  /\ Resolve(tok) /= NoId
  /\ users' = [users EXCEPT ![Resolve(tok)].tokens = {}]
  /\ revoked' = revoked \cup users[Resolve(tok)].tokens
  /\ last' = [Resp("logoutAll", Resolve(tok), 200, NoId, tok)
                EXCEPT !.held = users[Resolve(tok)].tokens]
  /\ UNCHANGED <<tweets, now, nextUid, nextTid, nextCid, flight>>

\* GET /users/me
GetMe(tok) ==
  /\ Resolve(tok) /= NoId
  /\ last' = [Resp("getMe", Resolve(tok), 200, NoId, tok)
                EXCEPT !.body = ToJSON(users[Resolve(tok)])]
  /\ UNCHANGED <<users, tweets, now, nextUid, nextTid, nextCid, revoked, flight>>

\* A DELETE /users/me that deletes the user's tweets and keeps the user.
DeleteUserTweetsOnly(tok) ==
  /\ Resolve(tok) /= NoId
  /\ tweets' = CascadeTweets(tweets, Resolve(tok))
  /\ last' = [Resp("deleteUser", Resolve(tok), 200, NoId, tok)
                EXCEPT !.body = ToJSON(users[Resolve(tok)])]
  /\ UNCHANGED <<users, now, nextUid, nextTid, nextCid, revoked, flight>>

\* DELETE /users/me: remove() runs the pre("remove") hook, then deletes the user.
DeleteUser(tok) ==
  /\ Resolve(tok) /= NoId
  /\ tweets' = CascadeTweets(tweets, Resolve(tok))
  /\ users' = Remove(users, Resolve(tok))
  /\ last' = [Resp("deleteUser", Resolve(tok), 200, NoId, tok)
                EXCEPT !.body = ToJSON(users[Resolve(tok)])]
  /\ UNCHANGED <<now, nextUid, nextTid, nextCid, revoked, flight>>

\* The status the client receives: the first one sent.  A handler that has
\* already sent one and sends again only raises inside its own catch.
Status(first, then) == IF first /= 0 THEN first ELSE then

\* The sends of a handler that may have sent first before its try block and
\* whose try block ends in then: a send after the first one throws ("headers
\* already sent"); thrown in the try block it lands in the catch, whose own
\* send of 500 throws again, out of the handler.
Sends(first, then) ==
  IF first = 0 THEN <<then>>
  ELSE IF then = 500 THEN <<first, 500>>
  ELSE <<first, then, 500>>

\* Object.keys(req.body)
BodyKeys(body) ==
  {k \in DOMAIN body : IF k = "author" THEN body[k] /= NoId ELSE body[k] /= Absent}

\* updates.every(update => allowedUpdates.includes(update))
IsValidOperation(keys, allowed) == keys \subseteq allowed

AllowedUserUpdates == {"username", "password", "email", "avatar"}

\* The updates with a new password ending the sessions.
ApplyUserUpdatesEndingSessions(user, body) ==
  [username |-> IF body.username /= Absent THEN Trim(body.username) ELSE user.username,
   password |-> IF body.password /= Absent THEN Hash(body.password) ELSE user.password,
   email    |-> IF body.email /= Absent THEN body.email ELSE user.email,
   avatar   |-> IF body.avatar /= Absent THEN body.avatar ELSE user.avatar,
   tokens   |-> IF body.tokens /= Absent \/ body.password /= Absent
                THEN {} ELSE user.tokens]

\* The updates with the password left as it was stored.
ApplyUserUpdatesKeepingPassword(user, body) ==
  [username |-> IF body.username /= Absent THEN Trim(body.username) ELSE user.username,
   password |-> user.password,
   email    |-> IF body.email /= Absent THEN body.email ELSE user.email,
   avatar   |-> IF body.avatar /= Absent THEN body.avatar ELSE user.avatar,
   tokens   |-> IF body.tokens /= Absent THEN {} ELSE user.tokens]

\* updates.forEach(update => user[update] = req.body[update]) on the loaded
\* document: every key that is a path of the schema is set, whether it is in
\* allowedUpdates or not; a key that is no path of the schema is not stored.
ApplyUserUpdates(user, body) ==
  [username |-> IF body.username /= Absent THEN Trim(body.username) ELSE user.username,
   password |-> IF body.password /= Absent THEN Hash(body.password) ELSE user.password,
   email    |-> IF body.email /= Absent THEN body.email ELSE user.email,
   avatar   |-> IF body.avatar /= Absent THEN body.avatar ELSE user.avatar,
   tokens   |-> IF body.tokens /= Absent THEN {} ELSE user.tokens]

\* The validators of the paths the request sets.
ValidUserUpdates(body) ==
  /\ body.username /= Absent => ValidUsername(Trim(body.username))
  /\ body.password /= Absent => ValidPassword(body.password)
  /\ body.email /= Absent => ValidEmail(body.email)

\* PATCH /users/me.  A body with a key outside allowedUpdates is answered 400
\* and the handler goes on.  save() validates, then runs the two rewrites if
\* the username is modified, then writes the user, where the unique index may
\* refuse it.
PatchUser(tok, body) ==
  /\ Resolve(tok) /= NoId
  /\ LET uid == Resolve(tok)
         ok == IsValidOperation(BodyKeys(body), AllowedUserUpdates)
         first == IF ok THEN 0 ELSE 400
         doc == ApplyUserUpdates(users[uid], body)
         renamed == doc.username /= users[uid].username
         resp(status) == [Resp("patchUser", uid, Status(first, status), NoId, tok)
                            EXCEPT !.was = users[uid].username, !.allowed = ok,
                                   !.sends = Sends(first, status)]
     IN IF ~ValidUserUpdates(body)
        THEN /\ UNCHANGED <<users, tweets>>
             /\ last' = resp(500)
        ELSE /\ tweets' = IF renamed THEN Propagate(tweets, uid, doc.username) ELSE tweets
             /\ IF renamed /\ ~UniqueOk(users, uid, doc.username)
                THEN /\ UNCHANGED users
                     /\ last' = resp(500)
                ELSE /\ users' = [users EXCEPT ![uid] = doc]
                     /\ last' = [resp(200) EXCEPT !.held = users[uid].tokens,
                                   !.body = IF ok THEN ToJSON(doc) ELSE NoUser]
  /\ UNCHANGED <<now, nextUid, nextTid, nextCid, revoked, flight>>

\* -------------------------------------------------------- tweet requests

AllowedTweetUpdates == {"content", "pictures", "videos"}

\* required: true on content
ValidContent(c) == c /= Absent /\ c /= ""

\* The object literal with the spread last: the body's fields win.
NewTweetBodyLast(body, uid, name) ==
  [author   |-> IF body.author /= NoId THEN body.author ELSE uid,
   username |-> IF body.username /= Absent THEN body.username ELSE name,
   content  |-> body.content,
   comments |-> <<>>]

\* new Tweet({...req.body, author: req.user._id, username:
\* req.user.username}): the two fields written after the spread replace what
\* the body had under those keys.
NewTweet(body, uid, name) ==
  [author   |-> uid,
   username |-> name,
   content  |-> body.content,
   comments |-> <<>>]

\* POST /tweets; req.user is the document authMiddle loaded.
CreateTweet(tok, body) ==
  /\ Resolve(tok) /= NoId
  /\ nextTid <= MaxTweets
  /\ LET uid == Resolve(tok)
         doc == NewTweet(body, uid, users[uid].username)
         ok == body.author = NoId /\ body.username = Absent /\ body.comments = Absent
     IN IF ~ValidContent(body.content)
        THEN /\ UNCHANGED <<tweets, nextTid>>
             /\ last' = [Resp("createTweet", uid, 400, NoId, tok) EXCEPT !.allowed = ok]
        ELSE /\ tweets' = Put(tweets, nextTid, doc)
             /\ nextTid' = nextTid + 1
             /\ last' = [Resp("createTweet", uid, 201, nextTid, tok) EXCEPT !.allowed = ok]
  /\ UNCHANGED <<users, now, nextUid, nextCid, revoked, flight>>

\* The handler without its check for a missing tweet: the dereference of
\* null throws and the catch answers.
AddCommentUnchecked(tok, tid, content) ==
  /\ Resolve(tok) /= NoId
  /\ nextCid <= MaxComments
  /\ LET uid == Resolve(tok)
         c == [id |-> nextCid, author |-> uid, username |-> users[uid].username,
               content |-> content, datetime |-> now]
     IN IF tid \notin DOMAIN tweets \/ ~ValidContent(content)
        THEN /\ UNCHANGED <<tweets, nextCid>>
             /\ last' = Resp("addComment", uid, 500, tid, tok)
        ELSE /\ tweets' = [tweets EXCEPT ![tid].comments = Append(@, c)]
             /\ nextCid' = nextCid + 1
             /\ last' = Resp("addComment", uid, 200, tid, tok)
  /\ UNCHANGED <<users, now, nextUid, nextTid, revoked, flight>>

\* The handler putting the new comment in front of the stored ones.
AddCommentInFront(tok, tid, content) ==
  /\ Resolve(tok) /= NoId
  /\ nextCid <= MaxComments
  /\ LET uid == Resolve(tok)
         c == [id |-> nextCid, author |-> uid, username |-> users[uid].username,
               content |-> content, datetime |-> now]
     IN IF tid \notin DOMAIN tweets
        THEN /\ UNCHANGED <<tweets, nextCid>>
             /\ last' = Resp("addComment", uid, 404, tid, tok)
        ELSE IF ~ValidContent(content)
        THEN /\ UNCHANGED <<tweets, nextCid>>
             /\ last' = Resp("addComment", uid, 500, tid, tok)
        ELSE /\ tweets' = [tweets EXCEPT ![tid].comments = <<c>> \o @]
             /\ nextCid' = nextCid + 1
             /\ last' = Resp("addComment", uid, 200, tid, tok)
  /\ UNCHANGED <<users, now, nextUid, nextTid, revoked, flight>>

\* POST /tweets/:tweetId/comments.  A missing tweet is answered 404 and the
\* handler goes on to dereference null, which its catch swallows.
AddComment(tok, tid, content) ==
  /\ Resolve(tok) /= NoId
  /\ nextCid <= MaxComments
  /\ LET uid == Resolve(tok)
         c == [id |-> nextCid, author |-> uid, username |-> users[uid].username,
               content |-> content, datetime |-> now]
     IN IF tid \notin DOMAIN tweets
        THEN /\ UNCHANGED <<tweets, nextCid>>
             /\ last' = [Resp("addComment", uid, 404, tid, tok)
                           EXCEPT !.sends = Sends(404, 500)]
        ELSE IF ~ValidContent(content)
        THEN /\ UNCHANGED <<tweets, nextCid>>
             /\ last' = Resp("addComment", uid, 500, tid, tok)
        ELSE /\ tweets' = [tweets EXCEPT ![tid].comments = Append(@, c)]
             /\ nextCid' = nextCid + 1
             /\ last' = Resp("addComment", uid, 200, tid, tok)
  /\ UNCHANGED <<users, now, nextUid, nextTid, revoked, flight>>

\* The lookup by id alone.
FindById(tid, uid) == tid \in DOMAIN tweets

\* Tweet.findOne({_id, author: req.user._id, username: req.user.username})
FindOwned(tid, uid) ==
  /\ tid \in DOMAIN tweets
  /\ tweets[tid].author = uid
  /\ tweets[tid].username = users[uid].username

\* updates.forEach(update => tweet[update] = req.body[update])
ApplyTweetUpdates(tweet, body) ==
  [author   |-> IF body.author /= NoId THEN body.author ELSE tweet.author,
   username |-> IF body.username /= Absent THEN body.username ELSE tweet.username,
   content  |-> IF body.content /= Absent THEN body.content ELSE tweet.content,
   comments |-> IF body.comments /= Absent THEN <<>> ELSE tweet.comments]

\* PATCH /tweets/:id.  As in PATCH /users/me the 400 does not end the handler.
PatchTweet(tok, tid, body) ==
  /\ Resolve(tok) /= NoId
  /\ LET uid == Resolve(tok)
         ok == IsValidOperation(BodyKeys(body), AllowedTweetUpdates)
         first == IF ok THEN 0 ELSE 400
         resp(status) == [Resp("patchTweet", uid, Status(first, status), tid, tok)
                            EXCEPT !.allowed = ok, !.sends = Sends(first, status)]
     IN IF ~FindOwned(tid, uid)
        THEN /\ UNCHANGED tweets
             /\ last' = resp(404)
        ELSE /\ tweets' = [tweets EXCEPT ![tid] = ApplyTweetUpdates(@, body)]
             /\ last' = resp(200)
  /\ UNCHANGED <<users, now, nextUid, nextTid, nextCid, revoked, flight>>

\* DELETE /tweets/:id: findOneAndDelete with the same filter.
DeleteTweet(tok, tid) ==
  /\ Resolve(tok) /= NoId
  /\ LET uid == Resolve(tok)
     IN IF ~FindOwned(tid, uid)
        THEN /\ UNCHANGED tweets
             /\ last' = Resp("deleteTweet", uid, 404, tid, tok)
        ELSE /\ tweets' = Remove(tweets, tid)
             /\ last' = Resp("deleteTweet", uid, 200, tid, tok)
  /\ UNCHANGED <<users, now, nextUid, nextTid, nextCid, revoked, flight>>

\* commentsArray.findIndex(comment => comment._id.toString() === _commentId),
\* with 0 standing for the -1 of "not found".
FindIndex(comments, cid) ==
  IF \E i \in DOMAIN comments : comments[i].id = cid
  THEN CHOOSE i \in DOMAIN comments : comments[i].id = cid
  ELSE 0

\* comments.splice(index, 1): index -1 counts from the end, so it removes the
\* last element.
Splice(comments, index) ==
  LET at == IF index = 0 THEN Len(comments) ELSE index
  IN [i \in 1..(Len(comments) - (IF at = 0 THEN 0 ELSE 1)) |->
        IF i < at THEN comments[i] ELSE comments[i + 1]]

\* The check letting a comment's author through as well.
IsTweetOwnerOrCommenter(tweet, uid) ==
  tweet.author = uid \/ \E i \in DOMAIN tweet.comments : tweet.comments[i].author = uid

\* tweet.author.toString() !== req.user._id.toString()
IsTweetOwner(tweet, uid) == tweet.author = uid

\* PATCH /tweets/:tweetId/comments/:commentId.  A missing tweet and a missing
\* comment are answered 404 and then dereferenced; the throw that follows (and
\* the one for a requester who is not the tweet's author) ends in the catch.
PatchComment(tok, tid, cid, content) ==
  /\ Resolve(tok) /= NoId
  /\ LET uid == Resolve(tok)
     IN IF tid \notin DOMAIN tweets
        THEN /\ UNCHANGED tweets
             /\ last' = [Resp("patchComment", uid, 404, tid, tok)
                           EXCEPT !.sends = Sends(404, 500)]
        ELSE IF ~IsTweetOwner(tweets[tid], uid)
        THEN /\ UNCHANGED tweets
             /\ last' = Resp("patchComment", uid, 500, tid, tok)
        ELSE IF FindIndex(tweets[tid].comments, cid) = 0
        THEN /\ UNCHANGED tweets
             /\ last' = [Resp("patchComment", uid, 404, tid, tok)
                           EXCEPT !.sends = Sends(404, 500)]
        ELSE IF ~ValidContent(content)
        THEN /\ UNCHANGED tweets
             /\ last' = Resp("patchComment", uid, 500, tid, tok)
        ELSE /\ tweets' = [tweets EXCEPT
                  ![tid].comments[FindIndex(tweets[tid].comments, cid)].content = content]
             /\ last' = Resp("patchComment", uid, 200, tid, tok)
  /\ UNCHANGED <<users, now, nextUid, nextTid, nextCid, revoked, flight>>

\* DELETE /tweets/:tweetId/comments/:commentId.  After the 404 for a missing
\* comment the handler still splices at index -1 and saves.
DeleteComment(tok, tid, cid) ==
  /\ Resolve(tok) /= NoId
  /\ LET uid == Resolve(tok)
     IN IF tid \notin DOMAIN tweets
        THEN /\ UNCHANGED tweets
             /\ last' = [Resp("deleteComment", uid, 404, tid, tok)
                           EXCEPT !.sends = Sends(404, 500)]
        ELSE IF ~IsTweetOwner(tweets[tid], uid)
        THEN /\ UNCHANGED tweets
             /\ last' = Resp("deleteComment", uid, 500, tid, tok)
        ELSE /\ tweets' = [tweets EXCEPT ![tid].comments =
                             Splice(@, FindIndex(tweets[tid].comments, cid))]
             /\ last' = [Resp("deleteComment", uid,
                              Status(IF FindIndex(tweets[tid].comments, cid) = 0
                                     THEN 404 ELSE 0, 200), tid, tok)
                           EXCEPT !.sends =
                             Sends(IF FindIndex(tweets[tid].comments, cid) = 0
                                   THEN 404 ELSE 0, 200)]
  /\ UNCHANGED <<users, now, nextUid, nextTid, nextCid, revoked, flight>>

\* -------------------------------------------------------------- listings

\* parseInt of a query value: the number a numeral denotes; NaN for a missing
\* value and for text that does not start with a numeral.
ParseInt(s) ==
  CASE s = "-1" -> [nan |-> FALSE, val |-> -1]
    [] s = "0" -> [nan |-> FALSE, val |-> 0]
    [] s = "1" -> [nan |-> FALSE, val |-> 1]
    [] s = "2" -> [nan |-> FALSE, val |-> 2]
    [] s = "3" -> [nan |-> FALSE, val |-> 3]
    [] OTHER -> [nan |-> TRUE, val |-> 0]

\* parseInt(...) || d: NaN and 0 are falsy.
OrDefault(p, d) == IF p.nan \/ p.val = 0 THEN d ELSE p.val

DefaultLimit == 10

\* The comparator handed to sort.
ByDatetime(a, b, sortOrder) ==
  IF sortOrder = 1 THEN a.datetime - b.datetime ELSE b.datetime - a.datetime

\* Array.prototype.sort is stable: an element goes behind every element that
\* does not compare greater.
Insert(sorted, c, sortOrder) ==
  LET n == Cardinality({i \in DOMAIN sorted : ByDatetime(sorted[i], c, sortOrder) <= 0})
  IN SubSeq(sorted, 1, n) \o <<c>> \o SubSeq(sorted, n + 1, Len(sorted))

RECURSIVE Sort(_, _)
Sort(comments, sortOrder) ==
  IF comments = <<>> THEN <<>>
  ELSE Insert(Sort(SubSeq(comments, 1, Len(comments) - 1), sortOrder),
              comments[Len(comments)], sortOrder)

\* What JSON.stringify writes for an index of an array that was never assigned.
Null == [null |-> TRUE]

\* let limit = ...; if (limit > length) limit = length;
\* for (i = skip; i < limit; i++) sentArray[i] = commentsArray[i];
\* the array's length is one more than the last index assigned, and the
\* indexes below skip stay unassigned.
SentArray(commentsArray, skip, limit) ==
  LET lim == IF limit > Len(commentsArray) THEN Len(commentsArray) ELSE limit
      from == IF skip < 0 THEN 0 ELSE skip
  IN IF from < lim
     THEN [i \in 1..lim |-> IF i - 1 < from THEN Null ELSE commentsArray[i]]
     ELSE <<>>

\* req.params of the route /tweets/:tweetId/comments: the one segment the path
\* names; the query string is not part of it.
Params(tid) == [tweetId |-> tid, sortByOrder |-> Absent]

CommentQuery(l, k, o) == [limit |-> l, skip |-> k, sortByOrder |-> o]

\* GET /tweets/:tweetId/comments (no gate).  The sort is done on the loaded
\* document and not saved.
GetComments(tid, query) ==
  /\ IF tid \notin DOMAIN tweets
     THEN last' = [Resp("getComments", NoId, 404, tid, NoToken) EXCEPT !.query = query]
     ELSE LET sortOrder == IF Params(tid).sortByOrder = "desc" THEN -1 ELSE 1
              commentsArray == Sort(tweets[tid].comments, sortOrder)
              limit == OrDefault(ParseInt(query.limit), DefaultLimit)
              skip == OrDefault(ParseInt(query.skip), 0)
          IN last' = [Resp("getComments", NoId, 200, tid, NoToken)
                        EXCEPT !.query = query,
                               !.sent = SentArray(commentsArray, skip, limit)]
  /\ UNCHANGED <<users, tweets, now, nextUid, nextTid, nextCid, revoked, flight>>

\* sort(sort): the ids of the set in the order of createdAt, which grows with
\* the id; direction -1 is newest first.
RECURSIVE Ranked(_, _)
Ranked(ids, direction) ==
  IF ids = {} THEN <<>>
  ELSE LET m == CHOOSE x \in ids :
                  \A y \in ids : IF direction = -1 THEN y <= x ELSE x <= y
       IN <<m>> \o Ranked(ids \ {m}, direction)

\* A cursor that cuts its result to limit documents and then skips.
PageLimitFirst(ranked, skip, limit) ==
  LET n == IF limit < 0 THEN -limit ELSE limit
      cut == SubSeq(ranked, 1, IF n < Len(ranked) THEN n ELSE Len(ranked))
  IN SubSeq(cut, skip + 1, Len(cut))

\* .limit(limit).skip(skip).exec(): the server skips first and then limits,
\* in whatever order the two were set on the query; a negative limit asks for
\* that many documents in a single batch.
Page(ranked, skip, limit) ==
  LET n == IF limit < 0 THEN -limit ELSE limit
      rest == SubSeq(ranked, skip + 1, Len(ranked))
  IN SubSeq(rest, 1, IF n < Len(rest) THEN n ELSE Len(rest))

NoSort == <<>>

TweetQuery(l, k, sb, u) == [limit |-> l, skip |-> k, sortBy |-> sb, username |-> u]

\* GET /tweets (no gate).  sortBy is "field:direction", split at the colon;
\* a negative skip is refused by the server (500).
GetTweets(query) ==
  /\ LET direction == IF query.sortBy = NoSort THEN -1
                      ELSE IF query.sortBy[2] = "desc" THEN -1 ELSE 1
         limit == OrDefault(ParseInt(query.limit), DefaultLimit)
         skip == OrDefault(ParseInt(query.skip), 0)
         found == {t \in DOMAIN tweets :
                     query.username /= Absent => tweets[t].username = query.username}
         page == Page(Ranked(found, direction), skip, limit)
     IN IF skip < 0
        THEN last' = [Resp("getTweets", NoId, 500, NoId, NoToken) EXCEPT !.query = query]
        ELSE last' = [Resp("getTweets", NoId, 200, NoId, NoToken)
                        EXCEPT !.query = query,
                               !.sent = [i \in DOMAIN page |->
                                           [id |-> page[i], doc |-> tweets[page[i]]]]]
  /\ UNCHANGED <<users, tweets, now, nextUid, nextTid, nextCid, revoked, flight>>

\* ---------------------------------------------------- requests in flight
\* Node runs a handler until its next await; between the awaits of one
\* request the steps of other requests run.  flight holds, for each request
\* being handled, the route, the await it has reached and what it holds in
\* memory: the id of the user document it loaded, the username it read (name;
\* for a rename the requested one, with the loaded one in was), the tokens it
\* loaded (held), the token presented or returned (tok) and whether the
\* stored document's version key has moved past the loaded one (stale).
\* after, mixed and ended only record the order of steps: the slot of the
\* rename whose tweet rewrite ran while a create was between its gate and its
\* store, whether any other rename of that user has rewritten or written since
\* the create passed the gate, and whether a later logout has presented the
\* token a login returned.  The
\* answer to a request handled in steps is kept in its slot (status).
Idle ==
  [op |-> "idle", step |-> "idle", uid |-> NoId, name |-> Absent, was |-> Absent,
   held |-> {}, tok |-> NoToken, stale |-> FALSE, after |-> 0, tid |-> NoId,
   status |-> 0, ended |-> FALSE, mixed |-> FALSE]

\* Slot r holds a request that has not been answered yet.
InFlight(r) == flight[r].step \notin {"idle", "done"}

\* Slot r is the one a new request takes: the first that holds no unanswered
\* request (the slots are interchangeable).
Free(r) == ~InFlight(r) /\ \A x \in Slots : x < r => InFlight(x)

\* A new request takes slot r; what other requests recorded about the
\* request that was there is dropped.
Start(r, req) ==
  [x \in Slots |->
     IF x = r THEN req
     ELSE IF flight[x].after = r THEN [flight[x] EXCEPT !.after = 0, !.mixed = TRUE]
     ELSE flight[x]]

\* POST /tweets up to its await: authMiddle has loaded req.user and the handler
\* has built the tweet from req.user._id and req.user.username.
BeginCreateTweet(r, tok) ==
  /\ Free(r)
  /\ Resolve(tok) /= NoId
  /\ nextTid + Cardinality({x \in Slots : InFlight(x) /\ flight[x].op = "createTweet"})
       <= MaxTweets
  /\ flight' = Start(r, [Idle EXCEPT !.op = "createTweet", !.step = "authorized",
                           !.uid = Resolve(tok), !.tok = tok,
                           !.name = users[Resolve(tok)].username])
  /\ UNCHANGED <<users, tweets, now, nextUid, nextTid, nextCid, revoked, last>>

\* A store that reads the user's username again when it saves.
StoreTweetFresh(r) ==
  /\ flight[r].op = "createTweet" /\ flight[r].step = "authorized"
  /\ tweets' = Put(tweets, nextTid,
                   [author |-> flight[r].uid, username |-> users[flight[r].uid].username,
                    content |-> "x", comments |-> <<>>])
  /\ nextTid' = nextTid + 1
  /\ flight' = [flight EXCEPT ![r].step = "done", ![r].tid = nextTid, ![r].status = 201]
  /\ UNCHANGED <<users, now, nextUid, nextCid, revoked, last>>

\* POST /tweets: tweet.save() and the 201.
StoreTweet(r) ==
  /\ flight[r].op = "createTweet" /\ flight[r].step = "authorized"
  /\ tweets' = Put(tweets, nextTid,
                   [author |-> flight[r].uid, username |-> flight[r].name,
                    content |-> "x", comments |-> <<>>])
  /\ nextTid' = nextTid + 1
  /\ flight' = [flight EXCEPT ![r].step = "done", ![r].tid = nextTid, ![r].status = 201]
  /\ UNCHANGED <<users, now, nextUid, nextCid, revoked, last>>

\* PATCH /users/me {username} up to save(): the gate, User.findById and the
\* assignment of the trimmed name to the loaded document.
BeginPatchUser(r, tok, name) ==
  /\ Free(r)
  /\ Resolve(tok) /= NoId
  /\ flight' = Start(r, [Idle EXCEPT !.op = "patchUser", !.step = "loaded",
                           !.uid = Resolve(tok), !.tok = tok, !.name = Trim(name),
                           !.was = users[Resolve(tok)].username])
  /\ UNCHANGED <<users, tweets, now, nextUid, nextTid, nextCid, revoked, last>>

\* pre("save") hook (3) of a save whose document has its username modified.
RewriteTweets(r) ==
  /\ flight[r].op = "patchUser" /\ flight[r].step = "loaded"
  /\ flight[r].name /= flight[r].was
  /\ tweets' = PropagateTweets(tweets, flight[r].uid, flight[r].name)
  /\ flight' = [x \in Slots |->
       IF x = r THEN [flight[x] EXCEPT !.step = "tweetsRewritten"]
       ELSE IF flight[x].op /= "createTweet" \/ flight[x].uid /= flight[r].uid
       THEN flight[x]
       ELSE IF flight[x].step = "authorized" /\ flight[x].after = 0
       THEN [flight[x] EXCEPT !.after = r]
       ELSE [flight[x] EXCEPT !.mixed = TRUE]]
  /\ UNCHANGED <<users, now, nextUid, nextTid, nextCid, revoked, last>>

\* pre("save") hook (4).
RewriteComments(r) ==
  /\ flight[r].op = "patchUser" /\ flight[r].step = "tweetsRewritten"
  /\ tweets' = PropagateComments(tweets, flight[r].uid, flight[r].name)
  /\ flight' = [flight EXCEPT ![r].step = "commentsRewritten"]
  /\ UNCHANGED <<users, now, nextUid, nextTid, nextCid, revoked, last>>

\* A save whose write does not wait for the two rewrites.
WriteUserEarly(r) ==
  /\ flight[r].op = "patchUser"
  /\ flight[r].step \in {"loaded", "tweetsRewritten", "commentsRewritten"}
  /\ LET uid == flight[r].uid
         ok == UniqueOk(users, uid, flight[r].name)
         status == IF ok THEN 200 ELSE 500
     IN /\ users' = IF ok /\ flight[r].name /= flight[r].was
                    THEN [users EXCEPT ![uid].username = flight[r].name]
                    ELSE users
        /\ flight' = [x \in Slots |->
             IF x = r THEN [flight[x] EXCEPT !.step = "done", !.status = status]
             ELSE IF /\ flight[x].op = "createTweet" /\ flight[x].uid = uid
                     /\ flight[x].after /= r /\ users' /= users
             THEN [flight[x] EXCEPT !.mixed = TRUE]
             ELSE flight[x]]
  /\ UNCHANGED <<tweets, now, nextUid, nextTid, nextCid, revoked, last>>

\* The write of save(): updateOne({_id}, {$set: {username}}) of the modified
\* path, refused by the unique index if another user has the name; then the
\* response.  A document with nothing modified is not written.
WriteUser(r) ==
  /\ flight[r].op = "patchUser"
  /\ \/ flight[r].step = "commentsRewritten"
     \/ flight[r].step = "loaded" /\ flight[r].name = flight[r].was
  /\ LET uid == flight[r].uid
         ok == UniqueOk(users, uid, flight[r].name)
         status == IF ok THEN 200 ELSE 500
     IN /\ users' = IF ok /\ flight[r].name /= flight[r].was
                    THEN [users EXCEPT ![uid].username = flight[r].name]
                    ELSE users
        /\ flight' = [x \in Slots |->
             IF x = r THEN [flight[x] EXCEPT !.step = "done", !.status = status]
             ELSE IF /\ flight[x].op = "createTweet" /\ flight[x].uid = uid
                     /\ flight[x].after /= r /\ users' /= users
             THEN [flight[x] EXCEPT !.mixed = TRUE]
             ELSE flight[x]]
  /\ UNCHANGED <<tweets, now, nextUid, nextTid, nextCid, revoked, last>>

\* The other requests in flight that loaded user uid now hold a document whose
\* version key is behind the stored one.
Outdate(fl, r, uid) ==
  [x \in Slots |->
     IF x /= r /\ InFlight(x) /\ fl[x].uid = uid
     THEN [fl[x] EXCEPT !.stale = TRUE]
     ELSE fl[x]]

\* POST /users/login up to generateAuthToken's save: findByCredentials has
\* loaded the user document (or thrown: 400).
BeginLogin(r, username, password) ==
  /\ Free(r)
  /\ LET uid == FindByCredentials(username, password)
     IN flight' = Start(r,
          IF uid = NoId
          THEN [Idle EXCEPT !.op = "login", !.step = "done", !.status = 400]
          ELSE [Idle EXCEPT !.op = "login", !.step = "loaded", !.uid = uid,
                            !.held = users[uid].tokens])
  /\ UNCHANGED <<users, tweets, now, nextUid, nextTid, nextCid, revoked, last>>

\* generateAuthToken: sign, this.tokens = this.tokens.concat({token}), save().
\* Assigning the array makes save() send $set: {tokens} with the loaded version
\* key in the filter and an increment of it; if the stored version has moved
\* the update matches no document and save() throws VersionError (400).
SaveToken(r) ==
  /\ flight[r].op = "login" /\ flight[r].step = "loaded"
  /\ LET uid == flight[r].uid
         tok == Sign(uid, now)
     IN IF flight[r].stale
        THEN /\ UNCHANGED users
             /\ flight' = [flight EXCEPT ![r].step = "done", ![r].status = 400]
        ELSE /\ users' = [users EXCEPT ![uid].tokens = flight[r].held \cup {tok}]
             /\ flight' = [Outdate(flight, r, uid) EXCEPT
                             ![r].step = "done", ![r].status = 200, ![r].tok = tok]
  /\ UNCHANGED <<tweets, now, nextUid, nextTid, nextCid, revoked, last>>

\* POST /users/logout up to its save: authMiddle has loaded req.user.
BeginLogout(r, tok) ==
  /\ Free(r)
  /\ Resolve(tok) /= NoId
  /\ flight' = Start(r, [Idle EXCEPT !.op = "logout", !.step = "authorized",
                           !.uid = Resolve(tok), !.tok = tok,
                           !.held = users[Resolve(tok)].tokens])
  /\ UNCHANGED <<users, tweets, now, nextUid, nextTid, nextCid, revoked, last>>

\* The slots with a login that returned tok now hold a session that was ended.
End(fl, tok) ==
  [x \in Slots |->
     IF fl[x].op = "login" /\ fl[x].step = "done" /\ fl[x].tok = tok
     THEN [fl[x] EXCEPT !.ended = TRUE]
     ELSE fl[x]]

\* The save of a logout written whatever the stored version is.
SaveLogoutUnversioned(r) ==
  /\ flight[r].op = "logout" /\ flight[r].step = "authorized"
  /\ LET uid == flight[r].uid
     IN /\ users' = [users EXCEPT ![uid].tokens = flight[r].held \ {flight[r].tok}]
        /\ revoked' = revoked \cup {flight[r].tok}
        /\ flight' = [End(Outdate(flight, r, uid), flight[r].tok) EXCEPT
                        ![r].step = "done", ![r].status = 200]
  /\ UNCHANGED <<tweets, now, nextUid, nextTid, nextCid, last>>

\* POST /users/logout: req.user.tokens = the loaded tokens without the
\* presented one, save() (versioned as in generateAuthToken; VersionError: 500).
SaveLogout(r) ==
  /\ flight[r].op = "logout" /\ flight[r].step = "authorized"
  /\ LET uid == flight[r].uid
     IN IF flight[r].stale
        THEN /\ UNCHANGED <<users, revoked>>
             /\ flight' = [flight EXCEPT ![r].step = "done", ![r].status = 500]
        ELSE /\ users' = [users EXCEPT ![uid].tokens = flight[r].held \ {flight[r].tok}]
             /\ revoked' = revoked \cup {flight[r].tok}
             /\ flight' = [End(Outdate(flight, r, uid), flight[r].tok) EXCEPT
                             ![r].step = "done", ![r].status = 200]
  /\ UNCHANGED <<tweets, now, nextUid, nextTid, nextCid, last>>

\* DELETE /users/me up to remove(): authMiddle has loaded req.user.
BeginDeleteUser(r, tok) ==
  /\ Free(r)
  /\ Resolve(tok) /= NoId
  /\ flight' = Start(r, [Idle EXCEPT !.op = "deleteUser", !.step = "authorized",
                           !.uid = Resolve(tok), !.tok = tok])
  /\ UNCHANGED <<users, tweets, now, nextUid, nextTid, nextCid, revoked, last>>

\* pre("remove") hook: await Tweet.deleteMany({author: this._id}).
DeleteTweetsOf(r) ==
  /\ flight[r].op = "deleteUser" /\ flight[r].step = "authorized"
  /\ tweets' = CascadeTweets(tweets, flight[r].uid)
  /\ flight' = [flight EXCEPT ![r].step = "tweetsDeleted"]
  /\ UNCHANGED <<users, now, nextUid, nextTid, nextCid, revoked, last>>

\* The delete of remove(), by _id (a document that is already gone is no
\* error), and the 200.
RemoveUser(r) ==
  /\ flight[r].op = "deleteUser" /\ flight[r].step = "tweetsDeleted"
  /\ users' = Remove(users, flight[r].uid)
  /\ flight' = [flight EXCEPT ![r].step = "done", ![r].status = 200]
  /\ UNCHANGED <<tweets, now, nextUid, nextTid, nextCid, revoked, last>>

\* ------------------------------------------------------------ the clock
\* A second passes (Date.now() as jwt.sign reads it).
Tick ==
  /\ now < MaxTime
  /\ now' = now + 1
  /\ last' = Resp("tick", NoId, 0, NoId, NoToken)
  /\ UNCHANGED <<users, tweets, nextUid, nextTid, nextCid, revoked, flight>>

\* ------------------------------------------------------- specifications
\* The empty database.
Init ==
  /\ users = <<>>
  /\ tweets = <<>>
  /\ now = 0
  /\ nextUid = 1
  /\ nextTid = 1
  /\ nextCid = 1
  /\ revoked = {}
  /\ last = Resp("init", NoId, 0, NoId, NoToken)
  /\ flight = [r \in Slots |-> Idle]

UserBody(u, p, e, a, t, f) ==
  [username |-> u, password |-> p, email |-> e, avatar |-> a, tokens |-> t, foo |-> f]

TweetBody(c, a, u, m) ==
  [content |-> c, author |-> a, username |-> u, comments |-> m]

\* With the clock standing still every user has the one token string that
\* signing yields in that second.
NowTokens == {Sign(u, 0) : u \in UserIds} \cup {BadToken}

\* Spec: registration, tweets, comments, profile updates (renames, also with
\* a refused password or a key that is not allowed) and account deletion.
RenameBodies ==
  {UserBody(u, p, Absent, Absent, Absent, f) :
     u \in UsernameInputs \cup {Absent}, p \in {Absent, BadPassword}, f \in {Absent, "1"}}

Next ==
  \/ \E u \in UsernameInputs : Register(u, "pw1", GoodEmail)
  \/ \E tok \in NowTokens, body \in RenameBodies : PatchUser(tok, body)
  \/ \E tok \in NowTokens : CreateTweet(tok, TweetBody("x", NoId, Absent, Absent))
  \/ \E tok \in NowTokens, tid \in TweetIds : AddComment(tok, tid, "x")
  \/ \E tok \in NowTokens : DeleteUser(tok)
  \/ \E op \in {"patchUser", "createTweet", "addComment"} : Unauthorized(op, BadToken)

Spec == Init /\ [][Next]_vars

\* SpecOwner: who may change or delete which tweet and comment.
OwnerTweetBodies ==
  {TweetBody(c, a, u, m) :
     c \in {Absent, "y"}, a \in {NoId, 1}, u \in {Absent, "c"}, m \in {Absent}}
     \cup {TweetBody(Absent, NoId, Absent, EmptyList)}

\* Bodies of POST /tweets: without content, and with an author and a username
\* of the client's choosing.
OwnerNewBodies ==
  {TweetBody("x", NoId, Absent, Absent), TweetBody(Absent, NoId, Absent, Absent),
   TweetBody("x", 1, "c", Absent)}

NextOwner ==
  \/ \E u \in {"a", "b"} : Register(u, "pw1", GoodEmail)
  \/ \E tok \in NowTokens : DeleteUser(tok)
  \/ \E tok \in NowTokens, body \in OwnerNewBodies : CreateTweet(tok, body)
  \/ \E tok \in NowTokens, tid \in TweetIds, c \in {"x", Absent} : AddComment(tok, tid, c)
  \/ \E tok \in NowTokens, tid \in TweetIds, body \in OwnerTweetBodies :
        PatchTweet(tok, tid, body)
  \/ \E tok \in NowTokens, tid \in TweetIds : DeleteTweet(tok, tid)
  \/ \E tok \in NowTokens, tid \in TweetIds, cid \in CommentIds, c \in {"y", Absent} :
        PatchComment(tok, tid, cid, c)
  \/ \E tok \in NowTokens, tid \in TweetIds, cid \in CommentIds \cup {NoId} :
        DeleteComment(tok, tid, cid)
  \/ \E op \in {"deleteUser", "patchTweet", "deleteTweet", "patchComment"} :
        Unauthorized(op, BadToken)

SpecOwner == Init /\ [][NextOwner]_vars

\* SpecAuth: sessions.  The clock advances, so one user can hold several
\* tokens; tokens of every second are presented, revoked ones included.
AuthBodies ==
  {UserBody(Absent, p, e, Absent, t, Absent) :
     p \in {Absent, "pw2"}, e \in {Absent, BadEmail}, t \in {Absent, EmptyList}}
    \cup {UserBody("b", Absent, GoodEmail, "pic", Absent, Absent)}

NextAuth ==
  \/ \E u \in {"a", "b"}, p \in {"pw1", BadPassword}, e \in {GoodEmail, BadEmail} :
        Register(u, p, e)
  \/ \E u \in {"a", "b"}, p \in Passwords : Login(u, p)
  \/ \E tok \in Tokens : Logout(tok)
  \/ \E tok \in Tokens : LogoutAll(tok)
  \/ \E tok \in Tokens : GetMe(tok)
  \/ \E tok \in Tokens, body \in AuthBodies : PatchUser(tok, body)
  \/ \E tok \in Tokens : DeleteUser(tok)
  \/ \E tok \in Tokens, op \in {"logout", "getMe"} : Unauthorized(op, tok)
  \/ Tick

SpecAuth == Init /\ [][NextAuth]_vars

\* SpecRace: renames and tweet creations whose steps interleave.
NextRace ==
  \/ \E u \in {"a", "b"} : Register(u, "pw1", GoodEmail)
  \/ \E r \in Slots, tok \in NowTokens : BeginCreateTweet(r, tok)
  \/ \E r \in Slots : StoreTweet(r)
  \/ \E r \in Slots, tok \in NowTokens, name \in {"b", "c"} : BeginPatchUser(r, tok, name)
  \/ \E r \in Slots : RewriteTweets(r)
  \/ \E r \in Slots : RewriteComments(r)
  \/ \E r \in Slots : WriteUser(r)

SpecRace == Init /\ [][NextRace]_vars

\* SpecSession: logins and logouts whose steps interleave, over several
\* seconds.
NextSession ==
  \/ \E u \in {"a", "b"} : Register(u, "pw1", GoodEmail)
  \/ \E r \in Slots, u \in {"a", "b"}, p \in Passwords : BeginLogin(r, u, p)
  \/ \E r \in Slots : SaveToken(r)
  \/ \E r \in Slots, tok \in Tokens : BeginLogout(r, tok)
  \/ \E r \in Slots : SaveLogout(r)
  \/ Tick

SpecSession == Init /\ [][NextSession]_vars

\* SpecCascade: account deletions and tweet creations whose steps interleave.
NextCascade ==
  \/ \E u \in {"a", "b"} : Register(u, "pw1", GoodEmail)
  \/ \E r \in Slots, tok \in NowTokens : BeginCreateTweet(r, tok)
  \/ \E r \in Slots : StoreTweet(r)
  \/ \E r \in Slots, tok \in NowTokens : BeginDeleteUser(r, tok)
  \/ \E r \in Slots : DeleteTweetsOf(r)
  \/ \E r \in Slots : RemoveUser(r)

SpecCascade == Init /\ [][NextCascade]_vars

\* SpecFeed: listings, comments and renames on a store that already holds
\* tweets and comments.  Users "a" (id 1) and "b" (id 2) are logged in; the
\* tweets were created in the order of their ids, by the two users in turn;
\* the first tweet holds comments of both, older than the ones this
\* specification's ids are given to, written at the times dates tells.
FeedUser(uid, name) ==
  [username |-> name, password |-> Hash("pw1"), email |-> GoodEmail,
   avatar |-> Absent, tokens |-> {Sign(uid, 0)}]

FeedName(uid) == IF uid = 1 THEN "a" ELSE "b"

FeedComment(i, date) ==
  [id |-> MaxComments + i, author |-> 1 + (i % 2), username |-> FeedName(1 + (i % 2)),
   content |-> "x", datetime |-> date]

FeedTweet(t, dates) ==
  [author |-> 2 - (t % 2), username |-> FeedName(2 - (t % 2)), content |-> "x",
   comments |-> IF t = 1 THEN [i \in DOMAIN dates |-> FeedComment(i, dates[i])] ELSE <<>>]

\* Date.now() never goes back: the comments of a tweet are stored in the
\* order of their datetime.
FeedDates ==
  UNION {{d \in [1..k -> 0..MaxTime] : \A i \in 1..k : i < k => d[i] <= d[i + 1]} :
           k \in 0..MaxListed}

InitFeed ==
  /\ users = [u \in 1..2 |-> FeedUser(u, FeedName(u))]
  /\ \E n \in 0..MaxListed, dates \in FeedDates :
       tweets = [t \in 1..n |-> FeedTweet(t, dates)]
  /\ now = MaxTime
  /\ nextUid = 3
  /\ nextTid = MaxTweets + 1
  /\ nextCid = 1
  /\ revoked = {}
  /\ last = Resp("init", NoId, 0, NoId, NoToken)
  /\ flight = [r \in Slots |-> Idle]

FeedNumbers == {Absent, "abc", "-1", "0", "1", "2", "3"}

CommentQueries ==
  {CommentQuery(l, k, Absent) : l \in {Absent, "1", "2", "3"}, k \in {Absent, "1", "2"}}
    \cup {CommentQuery(l, Absent, o) : l \in {Absent, "2"}, o \in {"asc", "desc"}}

TweetQueries ==
  {TweetQuery(l, k, NoSort, Absent) :
     l \in FeedNumbers, k \in {Absent, "-1", "1", "2"}}
    \cup {TweetQuery(l, Absent, sb, u) :
            l \in {Absent, "2"}, sb \in {NoSort, <<"createdAt", "asc">>},
            u \in {Absent, "a"}}

NextFeed ==
  \/ \E tid \in {1, MaxListed}, query \in CommentQueries : GetComments(tid, query)
  \/ \E query \in TweetQueries : GetTweets(query)
  \/ \E tok \in NowTokens, tid \in 1..MaxListed : AddComment(tok, tid, "x")
  \/ PatchUser(Sign(2, 0), UserBody("c", Absent, Absent, Absent, Absent, Absent))

SpecFeed == InitFeed /\ [][NextFeed]_vars

\* ------------------------------------------------------------ properties

\* The copies of uid's username on uid's tweets and on uid's comments, in tw,
\* all equal name.
CopiesAre(tw, uid, name) ==
  \A t \in DOMAIN tw :
    /\ tw[t].author = uid => tw[t].username = name
    /\ \A i \in DOMAIN tw[t].comments :
         tw[t].comments[i].author = uid => tw[t].comments[i].username = name

\* The last request passed the gate as the user last.actor.
Acted(op) == last.op = op /\ last.actor /= NoId

\* C1: with requests handled one at a time, every stored tweet and every
\* embedded comment whose author still exists carries that user's current
\* username.
C1_UsernamesInSync ==
  \A u \in DOMAIN users : CopiesAre(tweets, u, users[u].username)

\* C2: when a PATCH /users/me that changes the username is answered 200, every
\* tweet of that user and every comment of that user, in whoever's tweet, has
\* the new username.
C2_RenameConverges ==
  (Acted("patchUser") /\ last.status = 200 /\ last.was /= users[last.actor].username)
    => CopiesAre(tweets, last.actor, users[last.actor].username)

\* A rename from "a" to "c" has completed for a user who has a tweet of their
\* own and a comment under somebody else's tweet.
C2_Witness ==
  /\ Acted("patchUser") /\ last.status = 200
  /\ last.was = "a" /\ users[last.actor].username = "c"
  /\ \E t \in DOMAIN tweets : tweets[t].author = last.actor
  /\ \E t \in DOMAIN tweets :
       /\ tweets[t].author /= last.actor
       /\ \E i \in DOMAIN tweets[t].comments : tweets[t].comments[i].author = last.actor

\* C3: a PATCH /users/me asking for a username another user holds fails and
\* writes nothing: no user and no tweet or comment changes.
C3_TakenNameWritesNothing ==
  [][\A tok \in NowTokens, body \in RenameBodies :
       (/\ PatchUser(tok, body)
        /\ body.username /= Absent
        /\ \E o \in DOMAIN users :
             o /= Resolve(tok) /\ users[o].username = Trim(body.username))
       => (last'.status /= 200 /\ users' = users /\ tweets' = tweets)]_vars

\* C4: when DELETE /users/me by U is answered, U is gone, no stored tweet has
\* author U, and every tweet of another author is stored exactly as before.
C4_DeleteUserCascades ==
  [][(last'.op = "deleteUser" /\ last'.status = 200)
       => /\ last'.actor \notin DOMAIN users'
          /\ \A t \in DOMAIN tweets' : tweets'[t].author /= last'.actor
          /\ \A t \in DOMAIN tweets :
               tweets[t].author /= last'.actor
                 => (t \in DOMAIN tweets' /\ tweets'[t] = tweets[t])]_vars

\* A user has been deleted after two tweets were created; one tweet is left,
\* it is another user's and holds a comment of the deleted user.
C4_Witness ==
  /\ Acted("deleteUser") /\ last.status = 200
  /\ nextTid = 3
  /\ \E t \in DOMAIN tweets :
       /\ DOMAIN tweets = {t}
       /\ tweets[t].author \in DOMAIN users
       /\ \E i \in DOMAIN tweets[t].comments : tweets[t].comments[i].author = last.actor

\* C5: a token that a logout revoked never resolves at the gate again.
C5_RevokedNeverResolves ==
  \A tok \in revoked : Resolve(tok) = NoId

\* C6: the token a successful registration returns resolves at the gate to the
\* user that registration created.
C6_RegisterTokenResolves ==
  (last.op = "register" /\ last.status = 201)
    => /\ last.actor = nextUid - 1
       /\ last.actor \in DOMAIN users
       /\ Resolve(last.token) = last.actor

\* The second user has just registered, while the first one holds a token.
C6_Witness ==
  /\ last.op = "register" /\ last.status = 201 /\ last.actor = 2
  /\ 1 \in DOMAIN users /\ users[1].tokens /= {}

\* The last request was a PATCH or DELETE /tweets/:id by a user who is not the
\* author of the stored tweet it names.
ByNonOwner ==
  /\ last.op \in {"patchTweet", "deleteTweet"} /\ last.actor /= NoId
  /\ last.tid \in DOMAIN tweets
  /\ tweets[last.tid].author /= last.actor

\* C7 as stated: a PATCH or DELETE /tweets/:id by a user other than the
\* tweet's author is answered 404.
C7_NonOwnerGets404 == ByNonOwner => last.status = 404

\* C7, amended: a PATCH or DELETE /tweets/:id by a user other than the tweet's
\* author changes no tweet and is answered exactly as the same request for a
\* tweet id that is not stored: 404, or 400 when the PATCH body has a key
\* outside {content, pictures, videos}.
C7_NonOwnerCannotTouch ==
  [][(/\ last'.op \in {"patchTweet", "deleteTweet"}
      /\ last'.actor /= NoId
      /\ (last'.tid \notin DOMAIN tweets \/ tweets[last'.tid].author /= last'.actor))
       => /\ tweets' = tweets
          /\ last'.status = IF last'.allowed THEN 404 ELSE 400]_vars

\* A user has sent a PATCH with a key that is not allowed for another user's
\* tweet and got 400.
C7_Witness == ByNonOwner /\ last.op = "patchTweet" /\ last.status = 400

\* C8: a PATCH or DELETE /tweets/:tweetId/comments/:commentId by a user who is
\* not the author of the parent tweet, the comment's own author included,
\* leaves every tweet's comments as they were.
C8_OnlyTweetOwnerEditsComments ==
  [][(/\ last'.op \in {"patchComment", "deleteComment"}
      /\ last'.actor /= NoId
      /\ last'.tid \in DOMAIN tweets
      /\ tweets[last'.tid].author /= last'.actor)
       => (tweets' = tweets /\ last'.status /= 200)]_vars

\* The author of a comment under somebody else's tweet has tried to edit there.
C8_Witness ==
  /\ Acted("patchComment")
  /\ last.tid \in DOMAIN tweets
  /\ tweets[last.tid].author /= last.actor
  /\ \E i \in DOMAIN tweets[last.tid].comments :
       tweets[last.tid].comments[i].author = last.actor

\* C9: a PATCH /users/me whose body has a key outside {username, password,
\* email, avatar} changes no user, no tweet and no comment.
C9_InvalidUserPatchWritesNothing ==
  [][(last'.op = "patchUser" /\ last'.actor /= NoId /\ ~last'.allowed)
       => (users' = users /\ tweets' = tweets)]_vars

\* C10: a PATCH /tweets/:id by the tweet's owner whose body has a key outside
\* {content, pictures, videos} leaves the stored tweet as it was.
C10_InvalidTweetPatchWritesNothing ==
  [][(/\ last'.op = "patchTweet" /\ last'.actor /= NoId /\ ~last'.allowed
      /\ last'.tid \in DOMAIN tweets
      /\ tweets[last'.tid].author = last'.actor)
       => (last'.tid \in DOMAIN tweets' /\ tweets'[last'.tid] = tweets[last'.tid])]_vars

\* C11: no request changes the author of a stored tweet, a new tweet has the
\* author and the username of the user who created it, and the username of a
\* stored tweet changes only in a request that runs the rename rewrite.
C11_AuthorNeverFromBody ==
  [][/\ \A t \in DOMAIN tweets \cap DOMAIN tweets' :
          /\ tweets'[t].author = tweets[t].author
          /\ tweets'[t].username /= tweets[t].username
               => last'.op \in {"register", "patchUser"}
     /\ \A t \in DOMAIN tweets' \ DOMAIN tweets :
          /\ tweets'[t].author = last'.actor
          /\ tweets'[t].username = users[last'.actor].username]_vars

\* C12: a DELETE /tweets/:tweetId/comments/:commentId by the tweet's author
\* with a comment id that no comment of the tweet has is answered 404 and
\* removes no comment.
C12_UnknownCommentRemovesNothing ==
  [][\A tok \in NowTokens, tid \in TweetIds, cid \in CommentIds \cup {NoId} :
       (/\ DeleteComment(tok, tid, cid)
        /\ tid \in DOMAIN tweets
        /\ tweets[tid].author = Resolve(tok)
        /\ \A i \in DOMAIN tweets[tid].comments : tweets[tid].comments[i].id /= cid)
       => (last'.status = 404 /\ tweets' = tweets)]_vars

C14_LogoutAllRevokesEverything ==
  (Acted("logoutAll") /\ last.status = 200)
    => /\ last.actor \in DOMAIN users
       /\ users[last.actor].tokens = {}
       /\ \A t \in Tokens : t.uid = last.actor => Resolve(t) = NoId

\* A user holding two tokens has logged out of all sessions.
C14_Witness ==
  /\ Acted("logoutAll") /\ last.status = 200
  /\ Cardinality(last.held) = 2

\* C15: after a successful login the user's tokens are the ones held before
\* plus the returned one, and each of them resolves to the user.
C15_LoginAppends ==
  (last.op = "login" /\ last.status = 200)
    => /\ last.actor \in DOMAIN users
       /\ users[last.actor].tokens = last.held \cup {last.token}
       /\ \A t \in last.held \cup {last.token} : Resolve(t) = last.actor

\* A user who already held a token has logged in and got a different one.
C15_Witness ==
  /\ last.op = "login" /\ last.status = 200
  /\ last.held /= {}
  /\ last.token \notin last.held

\* C19: the user record in a response body (register, login, GET, PATCH and
\* DELETE /users/me) never has the password hash or the tokens list.
C19_NoSecretsInResponses ==
  last.body /= NoUser
    => /\ last.op \in {"register", "login", "getMe", "patchUser", "deleteUser"}
       /\ "password" \notin DOMAIN last.body
       /\ "tokens" \notin DOMAIN last.body
       /\ "username" \in DOMAIN last.body

\* A profile update has answered with the record of a user who holds a token
\* and has the new password stored.
C19_Witness ==
  /\ Acted("patchUser") /\ last.status = 200 /\ last.body /= NoUser
  /\ users[last.actor].tokens /= {}
  /\ users[last.actor].password = Hash("pw2")

C20_OrphanCommentsKeepName ==
  [][(last'.op = "deleteUser" /\ last'.status = 200)
       => \A t \in DOMAIN tweets :
            tweets[t].author /= last'.actor
              => /\ t \in DOMAIN tweets'
                 /\ \A i \in DOMAIN tweets[t].comments :
                      tweets[t].comments[i].author = last'.actor
                        => /\ i \in DOMAIN tweets'[t].comments
                           /\ tweets'[t].comments[i] = tweets[t].comments[i]
                           /\ tweets'[t].comments[i].username
                                = users[last'.actor].username]_vars

\* The request in slot c is an answered POST /tweets and the one in slot p an
\* answered, successful rename of the same user from the name the create had
\* read; the create passed the gate before the rename's tweet rewrite ran and
\* stored its tweet after it, and no other rename of that user has acted since
\* the create passed the gate.
Overtaken(c, p) ==
  /\ flight[c].op = "createTweet" /\ flight[c].step = "done" /\ flight[c].after = p
  /\ ~flight[c].mixed
  /\ flight[p].op = "patchUser" /\ flight[p].step = "done" /\ flight[p].status = 200
  /\ flight[c].name = flight[p].was

\* C17: once a POST /tweets by U and U's rename from a to b have both been
\* answered, the create having passed the gate before the rename's tweet
\* rewrite and stored its tweet after it, the stored tweet has author U and
\* username a while U's username is b.
C17_StaleStamp ==
  \A c, p \in Slots :
    Overtaken(c, p)
      => /\ flight[p].was /= flight[p].name
         /\ flight[c].tid \in DOMAIN tweets
         /\ tweets[flight[c].tid].author = flight[c].uid
         /\ tweets[flight[c].tid].username = flight[p].was
         /\ users[flight[c].uid].username = flight[p].name

\* Such a create and such a rename have both been answered.
C17_Witness == \E c, p \in Slots : Overtaken(c, p)

\* C18: in every interleaving of the steps of logins and logouts, a token that
\* a login answered 200 returned is in that user's tokens and resolves to the
\* user, for as long as no logout has presented that same token.
C18_LoginTokenSurvives ==
  \A l \in Slots :
    (/\ flight[l].op = "login" /\ flight[l].step = "done"
     /\ flight[l].status = 200 /\ ~flight[l].ended)
      => /\ flight[l].tok \in users[flight[l].uid].tokens
         /\ Resolve(flight[l].tok) = flight[l].uid

\* A login and a logout of another session of the same user have both loaded
\* the user before either saved, and both have been answered, the login
\* with 200.
C18_Witness ==
  \E l, o \in Slots :
    /\ flight[l].op = "login" /\ flight[l].step = "done" /\ flight[l].status = 200
    /\ flight[o].op = "logout" /\ flight[o].step = "done" /\ flight[o].stale
    /\ flight[o].uid = flight[l].uid /\ flight[o].tok /= flight[l].tok

C23_NonOwnerCommentGets404 ==
  (/\ last.op \in {"patchComment", "deleteComment"} /\ last.actor /= NoId
   /\ last.tid \in DOMAIN tweets
   /\ tweets[last.tid].author /= last.actor)
    => last.status = 404

\* C24: a login with a username no user has and a login with a stored
\* username and a password that does not match are answered with one and the
\* same response, 400 without a body, and change no user.
C24_LoginFailuresAlike ==
  [][\A u \in {"a", "b"}, p \in Passwords :
       (/\ Login(u, p)
        /\ \/ \A o \in DOMAIN users : users[o].username /= u
           \/ \E o \in DOMAIN users :
                users[o].username = u /\ ~Compare(p, users[o].password))
       => (last' = Resp("login", NoId, 400, NoId, NoToken) /\ users' = users)]_vars

\* A login has failed while one user is stored whose password is no longer
\* the one registered: a login with either password of the other name fails
\* for the name, and one with the old password of this name for the password.
C24_Witness ==
  /\ last.op = "login" /\ last.status = 400
  /\ \E u \in DOMAIN users : DOMAIN users = {u} /\ users[u].password = Hash("pw2")

\* C29: a POST /tweets/:tweetId/comments for an id no stored tweet has is
\* answered 404 and changes no tweet and no user.
C29_CommentOnMissingTweet ==
  [][(last'.op = "addComment" /\ last'.actor /= NoId /\ last'.tid \notin DOMAIN tweets)
       => (last'.status = 404 /\ tweets' = tweets /\ users' = users)]_vars

\* A user has commented on an id that is not stored while another tweet is.
C29_Witness ==
  /\ Acted("addComment") /\ last.tid \notin DOMAIN tweets /\ last.status = 404
  /\ DOMAIN tweets /= {}

C22_CommentAppends ==
  [][(last'.op = "addComment" /\ last'.actor /= NoId /\ last'.tid \in DOMAIN tweets)
       => LET old == tweets[last'.tid].comments
              new == tweets'[last'.tid].comments
          IN /\ last'.status = 200
             /\ Len(new) = Len(old) + 1
             /\ SubSeq(new, 1, Len(old)) = old
             /\ new[Len(new)].author = last'.actor
             /\ new[Len(new)].username = users[last'.actor].username
             /\ \A t \in DOMAIN tweets :
                  t /= last'.tid => t \in DOMAIN tweets' /\ tweets'[t] = tweets[t]
             /\ [tweets'[last'.tid] EXCEPT !.comments = old] = tweets[last'.tid]]_vars

\* A renamed user has commented on somebody else's tweet that already had
\* three comments, and the new comment is last and has the new name.
C22_Witness ==
  /\ Acted("addComment") /\ last.status = 200 /\ last.tid \in DOMAIN tweets
  /\ tweets[last.tid].author /= last.actor
  /\ users[last.actor].username = "c"
  /\ Len(tweets[last.tid].comments) = 4
  /\ tweets[last.tid].comments[4].username = "c"

\* The numbers a listing's query string asks for.
AskedLimit == OrDefault(ParseInt(last.query.limit), DefaultLimit)

AskedSkip == OrDefault(ParseInt(last.query.skip), 0)

Smaller(a, b) == IF a < b THEN a ELSE b

\* C25: GET /tweets/:tweetId/comments with limit >= 1 and skip >= 0 sends
\* exactly the comments at positions skip .. min(limit, length) - 1 of the
\* tweet's comments in datetime order, and no other entry.
C25_CommentWindow ==
  (/\ last.op = "getComments" /\ last.status = 200
   /\ last.query.limit \in {"1", "2", "3"} /\ last.query.sortByOrder /= "desc")
    => LET stored == tweets[last.tid].comments
           end == Smaller(AskedLimit, Len(stored))
       IN /\ \A i, j \in DOMAIN stored : i < j => stored[i].datetime <= stored[j].datetime
          /\ Len(last.sent) = IF end > AskedSkip THEN end - AskedSkip ELSE 0
          /\ \A i \in DOMAIN last.sent : last.sent[i] = stored[AskedSkip + i]

\* C26: with sortByOrder=desc the comments GET /tweets/:tweetId/comments sends
\* are in descending datetime order, otherwise in ascending order.
C26_CommentOrder ==
  (last.op = "getComments" /\ last.status = 200)
    => \A i, j \in DOMAIN last.sent :
         (i < j /\ last.sent[i] /= Null /\ last.sent[j] /= Null)
           => IF last.query.sortByOrder = "desc"
              THEN last.sent[i].datetime >= last.sent[j].datetime
              ELSE last.sent[i].datetime <= last.sent[j].datetime

\* C27: GET /tweets with limit L >= 1, skip S >= 0 and no sortBy sends exactly
\* the tweets ranked S+1 .. S+L by creation, newest first: the i-th tweet sent
\* has S+i-1 newer tweets, and min(L, n-S) are sent.
C27_TweetPage ==
  (/\ last.op = "getTweets" /\ last.status = 200
   /\ last.query.limit \in {"1", "2", "3"}
   /\ last.query.sortBy = NoSort /\ last.query.username = Absent)
    => LET n == Cardinality(DOMAIN tweets)
       IN /\ Len(last.sent) = IF n > AskedSkip THEN Smaller(AskedLimit, n - AskedSkip) ELSE 0
          /\ \A i \in DOMAIN last.sent :
               /\ last.sent[i].id \in DOMAIN tweets
               /\ last.sent[i].doc = tweets[last.sent[i].id]
               /\ Cardinality({t \in DOMAIN tweets : t > last.sent[i].id}) = AskedSkip + i - 1

\* limit=2 and skip=1 over three tweets has sent the second and the third
\* most recent ones.
C27_Witness ==
  /\ last.op = "getTweets" /\ last.status = 200
  /\ last.query.limit = "2" /\ last.query.skip = "1"
  /\ last.query.sortBy = NoSort /\ last.query.username = Absent
  /\ Cardinality(DOMAIN tweets) = 3
  /\ Len(last.sent) = 2 /\ last.sent[1].id = 2 /\ last.sent[2].id = 1

\* C28: GET /tweets with a limit that is absent, not a number, zero or
\* negative sends what a limit of 10 sends.
C28_DefaultLimit ==
  (/\ last.op = "getTweets" /\ last.status = 200
   /\ last.query.limit \in {Absent, "abc", "0", "-1"}
   /\ last.query.sortBy = NoSort /\ last.query.username = Absent)
    => LET n == Cardinality(DOMAIN tweets)
       IN Len(last.sent) = IF n > AskedSkip THEN Smaller(DefaultLimit, n - AskedSkip) ELSE 0

\* The bodies of SpecAuth that set a password.
PasswordBodies == {body \in AuthBodies : body.password /= Absent}

C32_RenameInOrder ==
  [][\A r \in Slots :
       LET a == flight[r]
           b == flight'[r]
       IN (b.op = "patchUser" /\ b.name /= b.was /\ a.step /= b.step)
            => \/ /\ b.step = "loaded" /\ a.step \in {"idle", "done"}
                  /\ tweets' = tweets /\ users' = users /\ b.status = 0
               \/ /\ b.step = "tweetsRewritten" /\ a.step = "loaded"
                  /\ tweets' = PropagateTweets(tweets, a.uid, a.name)
                  /\ users' = users /\ b.status = 0
               \/ /\ b.step = "commentsRewritten" /\ a.step = "tweetsRewritten"
                  /\ tweets' = PropagateComments(tweets, a.uid, a.name)
                  /\ users' = users /\ b.status = 0
               \/ /\ b.step = "done" /\ a.step = "commentsRewritten"
                  /\ tweets' = tweets
                  /\ b.status \in {200, 500}
                  /\ b.status = 200 => users'[a.uid].username = a.name
                  /\ b.status = 500 => users' = users]_vars

\* A rename of a user who has a tweet has been answered 200 while another
\* request was in flight.
C32_Witness ==
  \E r, x \in Slots :
    /\ flight[r].op = "patchUser" /\ flight[r].step = "done" /\ flight[r].status = 200
    /\ flight[r].name /= flight[r].was
    /\ \E t \in DOMAIN tweets :
         tweets[t].author = flight[r].uid /\ tweets[t].username = flight[r].name
    /\ x /= r /\ InFlight(x)

\* C33: once two renames of one user named "a", to "b" and to "c", that both
\* loaded the user before either wrote it have both been answered 200 and no
\* request is in flight, every tweet and every comment of that user has the
\* username stored on the user.
C33_ConcurrentRenamesConverge ==
  \A r1, r2 \in Slots :
    (/\ r1 /= r2
     /\ flight[r1].op = "patchUser" /\ flight[r1].step = "done" /\ flight[r1].status = 200
     /\ flight[r2].op = "patchUser" /\ flight[r2].step = "done" /\ flight[r2].status = 200
     /\ flight[r1].uid = flight[r2].uid
     /\ flight[r1].name = "b" /\ flight[r2].name = "c"
     /\ flight[r1].was = "a" /\ flight[r2].was = "a"
     /\ \A x \in Slots : ~InFlight(x))
      => CopiesAre(tweets, flight[r1].uid, users[flight[r1].uid].username)

\* C34: whenever no request is in flight, the author of every stored tweet is
\* the id of a stored user, a POST /tweets that has passed the gate running
\* together with its user's DELETE /users/me included.
C34_AuthorsExistWhenQuiet ==
  (\A x \in Slots : ~InFlight(x))
    => \A t \in DOMAIN tweets : tweets[t].author \in DOMAIN users

\* C35: a PATCH /tweets/T with an allowed body and a DELETE /tweets/T by the
\* user whose id is the author of the stored tweet T find the tweet and are
\* answered 200.
C35_OwnerReachesOwnTweet ==
  [][(/\ last'.op \in {"patchTweet", "deleteTweet"}
      /\ last'.actor /= NoId /\ last'.allowed
      /\ last'.tid \in DOMAIN tweets
      /\ tweets[last'.tid].author = last'.actor)
       => last'.status = 200]_vars

\* C36: every handler sends one response: none reaches a second send after
\* one was sent (the second send is what throws out of the handler's catch).
C36_OneResponse == Len(last.sends) <= 1

\* C37: a PATCH /users/me answered 200 leaves every user's tokens as they
\* were, and every token that resolved at the gate before it resolves to the
\* same user after it.
C37_UpdateKeepsSessions ==
  [][(last'.op = "patchUser" /\ last'.status = 200)
       => /\ \A u \in DOMAIN users : u \in DOMAIN users' /\ users'[u].tokens = users[u].tokens
          /\ \A tok \in Tokens : Resolve(tok) /= NoId => Resolve(tok)' = Resolve(tok)]_vars

\* A user holding two tokens has changed the password, and another the
\* username, email and avatar; the tokens held are the ones held before.
C37_Witness ==
  /\ last.op = "patchUser" /\ last.status = 200
  /\ Cardinality(last.held) = 2 /\ users[last.actor].tokens = last.held
  /\ users[last.actor].password = Hash("pw2")
  /\ \E u \in DOMAIN users : users[u].avatar = "pic" /\ users[u].tokens /= {}

C39_ResolvesToIssuee ==
  /\ \A tok \in Tokens :
       Resolve(tok) /= NoId
         => /\ Resolve(tok) = tok.uid
            /\ tok.iat <= now
            /\ tok \in users[Resolve(tok)].tokens
  /\ \A u \in DOMAIN users : \A tok \in users[u].tokens : tok.uid = u
  /\ (last.op \in {"register", "login"} /\ last.status \in {200, 201})
       => last.token.uid = last.actor /\ last.token.iat = now

\* A user holding two tokens has passed the gate with the later one while
\* another user holds a token too.
C39_Witness ==
  /\ Acted("getMe") /\ last.status = 200 /\ last.token.iat = 1
  /\ Cardinality(users[last.actor].tokens) = 2
  /\ \E u \in DOMAIN users : u /= last.actor /\ users[u].tokens /= {}

====
